---- MODULE Spec2Model ----
(***************************************************************************)
(* MediaDebugFastDumpImp (media_debug_fast_dump_imp.hpp): the asynchronous *)
(* capture-and-dump pipeline.  Producer threads call AddTask, the          *)
(* scheduler thread runs ScheduleTasks and hands each dump to a std::async *)
(* worker, and the destructor stops the scheduler and joins it.            *)
(*                                                                         *)
(* Every section the code runs with m_mutex held from its start to its end *)
(* is one action; the shutdown drain, which holds m_mutex across DoDump,   *)
(* is modelled with an explicit lock owner.  m_cond is the set of threads  *)
(* blocked in wait: notify_one wakes any one of them, notify_all wakes     *)
(* them all, and a waiter may also wake spuriously.                        *)
(*                                                                         *)
(* m_writeError is modelled by its invocations (the variable marker),      *)
(* whether or not informOnError makes it write a marker file.              *)
(***************************************************************************)
EXTENDS Integers, Sequences, FiniteSets, TLC

\* ------------------------------------------------------------------ bounds
MaxCalls == 2      \* AddTask calls in one run
SizeBits == 3      \* width of size_t in the model: arithmetic is mod 2^SizeBits

SizeMod  == 2 ^ SizeBits
SIZE_MAX == SizeMod - 1

\* the producer threads, and the id of the scheduler thread in m_cond's wait set
Producers   == {1, 2}
SchedulerId == 0
\* the ResInfo keys submitted
Shapes      == {1, 2}

\* size_t addition
SizeAdd(a, b) == (a + b) % SizeMod
\* size_t subtraction
SizeSub(a, b) == (a - b + SizeMod) % SizeMod

\* ------------------------------------------------------------------ inputs
\* every size_t value
SizeT     == 0 .. SIZE_MAX
\* the inputs of the concurrent runs: GetSizeMainSurface() of the submitted
\* resource, the offset, the dumpSize
ResSizes  == {1, SIZE_MAX}
Offsets   == {0}
DumpSizes == {0, 2}
\* <<m_memMng1st.cap as computed from the adapter, m_memMng2nd.cap>>
Caps      == {<<0, 0>>, <<1, 0>>, <<1, 1>>}

VARIABLES
    m_allowDataLoss,     \* configuration
    m_samplingTime,
    m_samplingInterval,
    now,                 \* Clock::now() - m_startTP in ms, as the gate reads it
    m_memMng1st,         \* [cap, usage]
    m_memMng2nd,
    heap,                \* the Res objects ever allocated, by index
    m_resPool,           \* shape -> sequence of Res indices
    m_resQueue,          \* sequence of Res indices
    m_ready4Dump,
    m_stopScheduler,
    m_mutex,             \* "free" or "scheduler" (the drain)
    m_cond,              \* threads blocked in m_cond.wait
    pc,                  \* producer -> position in AddTask
    call,                \* producer -> locals of its AddTask call
    nCalls,              \* AddTask calls made so far
    marker,              \* the tag the last step passed to m_writeError, "" if none
    s_pc,                \* scheduler thread position in ScheduleTasks
    w_pc,                \* std::async worker position
    qf,                  \* Res captured by the worker's lambda
    oldTask,             \* the previous worker still has its notify_all to do
    inDoDump,            \* number of DoDump executions in progress
    d_pc,                \* destructor position
    pushLog,             \* labels in the order they were pushed on m_resQueue;
                         \* no guard reads a label: the k-th job pushed is labelled k
    startLog,            \* labels in the order DoDump started on them
    doneLog,             \* labels in the order DoDump returned for them
    stopLen,             \* number of jobs pushed when m_stopScheduler was set
    backend,             \* the calls the last step made to the backend and the sink
    keys,                \* ResInfo keys handed to ResInfoCmp
    less                 \* less[i][j]: what ResInfoCmp returned for keys[i], keys[j]

cfgVars   == <<m_allowDataLoss, m_samplingTime, m_samplingInterval, now>>
poolVars  == <<m_memMng1st, m_memMng2nd, heap, m_resPool>>
prodVars  == <<pc, call, nCalls>>
schedVars == <<s_pc, w_pc, qf, oldTask, inDoDump>>
logVars   == <<pushLog, startLog, doneLog, stopLen>>
cmpVars   == <<keys, less>>
vars == <<cfgVars, poolVars, m_resQueue, m_ready4Dump, m_stopScheduler, m_mutex,
          m_cond, prodVars, marker, schedVars, d_pc, logVars, backend, cmpVars>>

NoCall == [dumpSize |-> 0, offset |-> 0, resSize |-> 0, shape |-> 0]

\* struct Res as constructed by std::make_shared<Res>().  res is the
\* MOS_RESOURCE: the dwMemType it was allocated with (0 while null) and the
\* resSize m_allocate charged for it
Res == [occupied |-> FALSE, size |-> 0, offset |-> 0, name |-> 0,
        memType |-> 0, charged |-> 0]

\* a step that calls neither pfnAllocateResource, SurfaceCopy nor m_write
NoIO == [allocTier |-> 0, allocFailed |-> FALSE, copyDst |-> 0, written |-> FALSE]

\* struct MemMng
MemMng(cap) == [cap |-> cap, usage |-> 0]

\* the members as the constructor leaves them (lines 463-507), for the
\* configuration it was given: cfg->allowDataLoss, <<cfg->samplingTime,
\* cfg->samplingInterval>>, the two capacities of lines 100-101, and the clock
Constructed(allowDataLoss, sampling, caps, clock) ==
    /\ m_allowDataLoss = allowDataLoss
    /\ m_samplingTime = sampling[1]
    /\ m_samplingInterval = sampling[2]
    /\ now = clock
    /\ m_memMng1st = MemMng(IF caps[1] # 0 THEN caps[1] ELSE SIZE_MAX)
    /\ m_memMng2nd = MemMng(caps[2])
    /\ heap = <<>>
    /\ m_resPool = [s \in Shapes |-> <<>>]
    /\ m_resQueue = <<>>
    /\ m_ready4Dump = TRUE
    /\ m_stopScheduler = FALSE
    /\ m_mutex = "free"
    /\ m_cond = {}
    /\ pc = [p \in Producers |-> "idle"]
    /\ call = [p \in Producers |-> NoCall]
    /\ nCalls = 0
    /\ marker = ""
    /\ s_pc = "loop"
    /\ w_pc = "none"
    /\ qf = 0
    /\ oldTask = FALSE
    /\ inDoDump = 0
    /\ d_pc = "alive"
    /\ pushLog = <<>>
    /\ startLog = <<>>
    /\ doneLog = <<>>
    /\ stopLen = 0
    /\ backend = NoIO

\* no key has been compared
NoCmp == keys = <<>> /\ less = <<>>

\* sampling disabled (the default), either data-loss policy, each budget
Init ==
    \E allowDataLoss \in BOOLEAN, caps \in Caps :
        Constructed(allowDataLoss, <<0, 0>>, caps, 0) /\ NoCmp

\* ------------------------------------------------------- pure functions
\* m_2CacheTask, lines 79-89: the lambda chosen by the constructor, applied to
\* the elapsed time; the sum of the two MS durations is a size_t sum
m_2CacheTask(elapsed) ==
    IF SizeAdd(m_samplingTime, m_samplingInterval) = 0
    THEN TRUE
    ELSE (elapsed % SizeAdd(m_samplingTime, m_samplingInterval)) <= m_samplingTime

\* the test of lines 243-244 that sends AddTask to "incorrect_size_offset"
SizeOffsetRejected(resSize, offset, dumpSize) ==
    resSize < SizeAdd(offset, dumpSize)

\* PickTier as it would be if tier 2, when configured, were tried before tier 1
PickTierSecondFirst(resSize) ==
    IF m_memMng2nd.cap > 0
    THEN IF SizeAdd(m_memMng2nd.usage, resSize) > m_memMng2nd.cap
         THEN IF SizeAdd(m_memMng1st.usage, resSize) > m_memMng1st.cap
              THEN 0
              ELSE 1
         ELSE 2
    ELSE IF SizeAdd(m_memMng1st.usage, resSize) > m_memMng1st.cap
         THEN 0
         ELSE 1

\* PickTier as it would be if a request that fills a tier exactly were refused
PickTierStrict(resSize) ==
    IF m_memMng2nd.cap > 0
    THEN IF SizeAdd(m_memMng1st.usage, resSize) >= m_memMng1st.cap
         THEN IF SizeAdd(m_memMng2nd.usage, resSize) >= m_memMng2nd.cap
              THEN 0
              ELSE 2
         ELSE 1
    ELSE IF SizeAdd(m_memMng1st.usage, resSize) >= m_memMng1st.cap
         THEN 0
         ELSE 1

\* PickTier as it would be without the test of line 110
PickTierUnchecked2(resSize) ==
    IF m_memMng2nd.cap > 0
    THEN IF SizeAdd(m_memMng1st.usage, resSize) > m_memMng1st.cap THEN 2 ELSE 1
    ELSE IF SizeAdd(m_memMng1st.usage, resSize) > m_memMng1st.cap THEN 0 ELSE 1

\* the tier whose budget test passes for resSize, 0 if none (lines 108-118, 132-136)
PickTier(resSize) ==
    IF m_memMng2nd.cap > 0
    THEN IF SizeAdd(m_memMng1st.usage, resSize) > m_memMng1st.cap
         THEN IF SizeAdd(m_memMng2nd.usage, resSize) > m_memMng2nd.cap
              THEN 0
              ELSE 2
         ELSE 1
    ELSE IF SizeAdd(m_memMng1st.usage, resSize) > m_memMng1st.cap
         THEN 0
         ELSE 1

\* m_allocate as it would be if the usage were charged before pfnAllocateResource
\* is called, whatever it returns
m_allocateChargesFirst(resSize, backendOk) ==
    LET tier == PickTier(resSize) IN
    [ok     |-> tier # 0 /\ backendOk,
     usage1 |-> IF tier = 1 THEN SizeAdd(m_memMng1st.usage, resSize)
                            ELSE m_memMng1st.usage,
     usage2 |-> IF tier = 2 THEN SizeAdd(m_memMng2nd.usage, resSize)
                            ELSE m_memMng2nd.usage]

\* m_allocate: [ok, usage1, usage2] after the call; backendOk is the outcome of
\* pfnAllocateResource
m_allocate(resSize, backendOk) ==
    LET tier == PickTier(resSize) IN
    IF tier # 0 /\ backendOk
    THEN [ok     |-> TRUE,
          usage1 |-> IF tier = 1 THEN SizeAdd(m_memMng1st.usage, resSize)
                                 ELSE m_memMng1st.usage,
          usage2 |-> IF tier = 2 THEN SizeAdd(m_memMng2nd.usage, resSize)
                                 ELSE m_memMng2nd.usage]
    ELSE [ok |-> FALSE, usage1 |-> m_memMng1st.usage, usage2 |-> m_memMng2nd.usage]

\* FindFree as it would be if the predicate of line 287 accepted every Res
FindFirst(h, bucket) == IF bucket = <<>> THEN 0 ELSE bucket[1]

\* FindFree as it would be with the predicate of line 287 inverted
FindOccupied(h, bucket) ==
    LET occ == {i \in 1 .. Len(bucket) : h[bucket[i]].occupied} IN
    IF occ = {} THEN 0
    ELSE bucket[CHOOSE i \in occ : \A j \in occ : i <= j]

\* std::find_if over a bucket for occupied == false: the first such Res, 0 for end()
FindFree(h, bucket) ==
    LET free == {i \in 1 .. Len(bucket) : ~h[bucket[i]].occupied} IN
    IF free = {} THEN 0
    ELSE bucket[CHOOSE i \in free : \A j \in free : i <= j]

\* Emplace as it would be if line 329 were missing
EmplaceNothing(q, r) == q

\* Emplace as it would be if the job went to the front of the queue
EmplaceFront(q, r) == <<r>> \o q

\* m_resQueue.emplace
Emplace(q, r) == Append(q, r)

\* size recorded for the job, line 325
JobSize(c) == IF c.dumpSize = 0 THEN SizeSub(c.resSize, c.offset) ELSE c.dumpSize

\* ------------------------------------------------------------- AddTask
\* lines 235-276: the gate, the size/offset validation and the resource info,
\* all before m_mutex is taken
AddTaskCall(p, gmmOk, resSize, offset, dumpSize, shape, infoOk) ==
    /\ pc[p] = "idle"
    /\ d_pc = "alive"
    /\ nCalls < MaxCalls
    /\ nCalls' = nCalls + 1
    /\ IF ~m_2CacheTask(now)
       THEN /\ marker' = ""
            /\ UNCHANGED <<pc, call>>
       ELSE IF ~gmmOk
       THEN /\ marker' = "get_surface_size_failed"
            /\ UNCHANGED <<pc, call>>
       ELSE IF SizeOffsetRejected(resSize, offset, dumpSize)
       THEN /\ marker' = "incorrect_size_offset"
            /\ UNCHANGED <<pc, call>>
       ELSE IF ~infoOk
       THEN /\ marker' = "get_resource_info_failed"
            /\ UNCHANGED <<pc, call>>
       ELSE /\ marker' = ""
            /\ pc' = [pc EXCEPT ![p] = "lock"]
            /\ call' = [call EXCEPT ![p] =
                   [dumpSize |-> dumpSize, offset |-> offset,
                    resSize |-> resSize, shape |-> shape]]
    /\ backend' = NoIO
    /\ UNCHANGED <<cfgVars, cmpVars, poolVars, m_resQueue, m_ready4Dump, m_stopScheduler,
                   m_mutex, m_cond, schedVars, d_pc, logVars>>

\* Stage as it would be if occupied were set before SurfaceCopy is called
StageMarksFirst(p, h, r, copyOk) ==
    /\ call' = [call EXCEPT ![p] = IF copyOk THEN call[p] ELSE NoCall]
    /\ IF copyOk
       THEN /\ heap' = [h EXCEPT ![r].occupied = TRUE,
                                 ![r].size     = JobSize(call[p]),
                                 ![r].offset   = call[p].offset,
                                 ![r].name     = Len(pushLog) + 1]
            /\ m_resQueue' = Emplace(m_resQueue, r)
            /\ pushLog' = Append(pushLog, Len(pushLog) + 1)
            /\ pc' = [pc EXCEPT ![p] = "notify"]
            /\ marker' = ""
       ELSE /\ heap' = [h EXCEPT ![r].occupied = TRUE]
            /\ marker' = "surface_copy_failed"
            /\ pc' = [pc EXCEPT ![p] = "idle"]
            /\ UNCHANGED <<m_resQueue, pushLog>>

\* lines 319-329 with m_mutex held: SurfaceCopy into Res r of heap h, then the job
\* is recorded in r and pushed; a failed copy returns with the marker
Stage(p, h, r, copyOk) ==
    /\ call' = [call EXCEPT ![p] = IF copyOk THEN call[p] ELSE NoCall]
    /\ IF copyOk
       THEN /\ heap' = [h EXCEPT ![r].occupied = TRUE,
                                 ![r].size     = JobSize(call[p]),
                                 ![r].offset   = call[p].offset,
                                 ![r].name     = Len(pushLog) + 1]
            /\ m_resQueue' = Emplace(m_resQueue, r)
            /\ pushLog' = Append(pushLog, Len(pushLog) + 1)
            /\ pc' = [pc EXCEPT ![p] = "notify"]
            /\ marker' = ""
       ELSE /\ heap' = h
            /\ marker' = "surface_copy_failed"
            /\ pc' = [pc EXCEPT ![p] = "idle"]
            /\ UNCHANGED <<m_resQueue, pushLog>>

\* lines 280-330: the critical section of AddTask up to its return, its wait or
\* its push
AddTaskAcquire(p, allocOk, copyOk) ==
    /\ pc[p] = "lock"
    /\ d_pc # "done"
    /\ m_mutex = "free"
    /\ LET shape == call[p].shape
           free  == FindFree(heap, m_resPool[shape])
           a     == m_allocate(call[p].resSize, allocOk)
           tier  == PickTier(call[p].resSize)
           new   == Len(heap) + 1
           tmpRes == [Res EXCEPT !.memType = tier, !.charged = call[p].resSize]
       IN  IF free # 0
           THEN /\ Stage(p, heap, free, copyOk)
                /\ backend' = [NoIO EXCEPT !.copyDst = free]
                /\ UNCHANGED <<m_memMng1st, m_memMng2nd, m_resPool, m_cond>>
           ELSE /\ m_memMng1st' = [m_memMng1st EXCEPT !.usage = a.usage1]
                /\ m_memMng2nd' = [m_memMng2nd EXCEPT !.usage = a.usage2]
                /\ backend' = [NoIO EXCEPT !.allocTier = tier,
                                           !.allocFailed = (tier # 0 /\ ~a.ok),
                                           !.copyDst = IF a.ok THEN new ELSE 0]
                /\ IF a.ok
                   THEN /\ m_resPool' = [m_resPool EXCEPT ![shape] = Append(@, new)]
                        /\ Stage(p, Append(heap, tmpRes), new, copyOk)
                        /\ UNCHANGED m_cond
                   ELSE IF ~m_allowDataLoss /\ m_resPool[shape] # <<>>
                   THEN /\ m_cond' = m_cond \cup {p}
                        /\ pc' = [pc EXCEPT ![p] = "wait"]
                        /\ marker' = ""
                        /\ UNCHANGED <<heap, m_resPool, m_resQueue, call, pushLog>>
                   ELSE /\ marker' = "discarded"
                        /\ pc' = [pc EXCEPT ![p] = "idle"]
                        /\ call' = [call EXCEPT ![p] = NoCall]
                        /\ UNCHANGED <<heap, m_resPool, m_resQueue, m_cond, pushLog>>
    /\ UNCHANGED <<cfgVars, cmpVars, m_ready4Dump, m_stopScheduler, m_mutex, nCalls,
                   schedVars, d_pc, startLog, doneLog, stopLen>>

\* lines 300-310: a woken producer re-takes m_mutex and evaluates the predicate
\* of its wait; when it finds a free Res it goes on to lines 319-329
AddTaskWoken(p, copyOk) ==
    /\ pc[p] = "woken"
    /\ d_pc # "done"
    /\ m_mutex = "free"
    /\ LET free == FindFree(heap, m_resPool[call[p].shape]) IN
       /\ backend' = [NoIO EXCEPT !.copyDst = free]
       /\ IF free # 0
          THEN /\ Stage(p, heap, free, copyOk)
               /\ UNCHANGED m_cond
          ELSE /\ m_cond' = m_cond \cup {p}
               /\ pc' = [pc EXCEPT ![p] = "wait"]
               /\ marker' = ""
               /\ UNCHANGED <<heap, m_resQueue, call, pushLog>>
    /\ UNCHANGED <<cfgVars, cmpVars, m_memMng1st, m_memMng2nd, m_resPool, m_ready4Dump,
                   m_stopScheduler, m_mutex, nCalls, schedVars, d_pc, startLog,
                   doneLog, stopLen>>

\* threads ws leave m_cond's wait set: a producer has to re-take m_mutex, the
\* scheduler is back at the predicate of line 397.  self is the notifying
\* producer, which returns from AddTask, or SchedulerId when no producer notifies
Wake(ws, self) ==
    /\ m_cond' = m_cond \ ws
    /\ pc' = [q \in Producers |-> IF q = self THEN "idle"
                                  ELSE IF q \in ws THEN "woken" ELSE pc[q]]
    /\ s_pc' = IF SchedulerId \in ws THEN "loop" ELSE s_pc

\* m_cond.notify_one(): one waiter, whichever the implementation picks
NotifyOne(self) ==
    IF m_cond = {} THEN Wake({}, self) ELSE \E w \in m_cond : Wake({w}, self)

\* m_cond.notify_all()
NotifyAll == Wake(m_cond, SchedulerId)

\* line 332
AddTaskNotify(p) ==
    /\ pc[p] = "notify"
    /\ d_pc # "done"
    /\ NotifyOne(p)
    /\ call' = [call EXCEPT ![p] = NoCall]
    /\ marker' = ""
    /\ backend' = NoIO
    /\ UNCHANGED <<cfgVars, cmpVars, poolVars, m_resQueue, m_ready4Dump, m_stopScheduler,
                   m_mutex, nCalls, w_pc, qf, oldTask, inDoDump, d_pc, logVars>>

\* a wait on m_cond may return without a notification
SpuriousWake ==
    /\ d_pc # "done"
    /\ \E w \in m_cond : Wake({w}, SchedulerId)
    /\ marker' = ""
    /\ backend' = NoIO
    /\ UNCHANGED <<cfgVars, cmpVars, poolVars, m_resQueue, m_ready4Dump, m_stopScheduler,
                   m_mutex, call, nCalls, w_pc, qf, oldTask,
                   inDoDump, d_pc, logVars>>

\* -------------------------------------------------------------- DoDump
\* DoDump is entered for Res r (lines 441-448)
DoDumpBegin(r) ==
    /\ inDoDump' = inDoDump + 1
    /\ startLog' = Append(startLog, heap[r].name)
    /\ marker' = ""
    /\ backend' = NoIO

\* DoDumpEnd as it would be if m_write were called whatever pfnLockResource returned
DoDumpEndWrites(r, lockOk) ==
    /\ inDoDump' = inDoDump - 1
    /\ doneLog' = Append(doneLog, heap[r].name)
    /\ marker' = IF lockOk THEN "" ELSE "lock_failed"
    /\ backend' = [NoIO EXCEPT !.written = TRUE]

\* DoDump returns (lines 450-459): m_write when the lock succeeded, else the
\* "lock_failed" marker
DoDumpEnd(r, lockOk) ==
    /\ inDoDump' = inDoDump - 1
    /\ doneLog' = Append(doneLog, heap[r].name)
    /\ marker' = IF lockOk THEN "" ELSE "lock_failed"
    /\ backend' = [NoIO EXCEPT !.written = lockOk]

\* ------------------------------------------------------- ScheduleTasks
\* the predicate of the scheduler's wait, line 397
SchedPredicate == (m_ready4Dump /\ m_resQueue # <<>>) \/ m_stopScheduler

\* lines 393-411: take m_mutex, wait for the predicate, then break on stop, or
\* take the front job, give up m_mutex and launch the worker with std::async;
\* the worker before it may still be in its notify_all
SchedLoop ==
    /\ s_pc = "loop"
    /\ m_mutex = "free"
    /\ IF ~SchedPredicate
       THEN /\ m_cond' = m_cond \cup {SchedulerId}
            /\ s_pc' = "wait"
            /\ UNCHANGED <<qf, m_ready4Dump, w_pc, oldTask>>
       ELSE IF m_stopScheduler
       THEN /\ s_pc' = "break"
            /\ UNCHANGED <<qf, m_ready4Dump, m_cond, w_pc, oldTask>>
       ELSE /\ qf' = Head(m_resQueue)
            /\ m_ready4Dump' = FALSE
            /\ w_pc' = "start"
            /\ oldTask' = (w_pc = "notify")
            /\ s_pc' = "assign"
            /\ UNCHANGED m_cond
    /\ marker' = ""
    /\ backend' = NoIO
    /\ UNCHANGED <<cfgVars, cmpVars, poolVars, m_resQueue, m_stopScheduler, m_mutex,
                   prodVars, inDoDump, d_pc, logVars>>

\* line 411, future = ...: the assignment returns when the worker before it is over
SchedAssign ==
    /\ s_pc = "assign"
    /\ ~oldTask
    /\ s_pc' = "loop"
    /\ marker' = ""
    /\ backend' = NoIO
    /\ UNCHANGED <<cfgVars, cmpVars, poolVars, m_resQueue, m_ready4Dump, m_stopScheduler,
                   m_mutex, m_cond, prodVars, w_pc, qf, oldTask, inDoDump, d_pc,
                   logVars>>

\* FutureWaitOver as it would be without lines 426-429
FutureWaitSkipped == TRUE

\* lines 426-429: the future is not valid, or its worker has finished
FutureWaitOver == w_pc = "none" /\ ~oldTask

\* lines 426-431: future.wait(), then m_mutex is taken for the drain
SchedDrainLock ==
    /\ s_pc = "break"
    /\ FutureWaitOver
    /\ m_mutex = "free"
    /\ m_mutex' = "scheduler"
    /\ s_pc' = "drain"
    /\ marker' = ""
    /\ backend' = NoIO
    /\ UNCHANGED <<cfgVars, cmpVars, poolVars, m_resQueue, m_ready4Dump, m_stopScheduler,
                   m_cond, prodVars, w_pc, qf, oldTask, inDoDump, d_pc, logVars>>

\* line 435: the drain enters DoDump on the front job
SchedDrainDump ==
    /\ s_pc = "drain"
    /\ m_resQueue # <<>>
    /\ DoDumpBegin(Head(m_resQueue))
    /\ s_pc' = "drainDump"
    /\ UNCHANGED <<cfgVars, cmpVars, poolVars, m_resQueue, m_ready4Dump, m_stopScheduler,
                   m_mutex, m_cond, prodVars, w_pc, qf, oldTask, d_pc, pushLog,
                   doneLog, stopLen>>

\* lines 435-437: DoDump returns, the Res is released and the job popped
SchedDrainPop(lockOk) ==
    /\ s_pc = "drainDump"
    /\ DoDumpEnd(Head(m_resQueue), lockOk)
    /\ heap' = [heap EXCEPT ![Head(m_resQueue)].occupied = FALSE]
    /\ m_resQueue' = Tail(m_resQueue)
    /\ s_pc' = "drain"
    /\ UNCHANGED <<cfgVars, cmpVars, m_memMng1st, m_memMng2nd, m_resPool, m_ready4Dump,
                   m_stopScheduler, m_mutex, m_cond, prodVars, w_pc, qf, oldTask,
                   d_pc, pushLog, startLog, stopLen>>

\* lines 433, 439: the queue is empty, ScheduleTasks returns and gives up m_mutex
SchedExit ==
    /\ s_pc = "drain"
    /\ m_resQueue = <<>>
    /\ m_mutex' = "free"
    /\ s_pc' = "exit"
    /\ marker' = ""
    /\ backend' = NoIO
    /\ UNCHANGED <<cfgVars, cmpVars, poolVars, m_resQueue, m_ready4Dump, m_stopScheduler,
                   m_cond, prodVars, w_pc, qf, oldTask, inDoDump, d_pc, logVars>>

\* ------------------------------------------------- the std::async worker
\* line 414: the worker enters DoDump(qf)
WorkerStart ==
    /\ w_pc = "start"
    /\ DoDumpBegin(qf)
    /\ w_pc' = "dump"
    /\ UNCHANGED <<cfgVars, cmpVars, poolVars, m_resQueue, m_ready4Dump, m_stopScheduler,
                   m_mutex, m_cond, prodVars, s_pc, qf, oldTask, d_pc, pushLog,
                   doneLog, stopLen>>

\* line 414: DoDump(qf) returns
WorkerDumped(lockOk) ==
    /\ w_pc = "dump"
    /\ DoDumpEnd(qf, lockOk)
    /\ w_pc' = "release"
    /\ UNCHANGED <<cfgVars, cmpVars, poolVars, m_resQueue, m_ready4Dump, m_stopScheduler,
                   m_mutex, m_cond, prodVars, s_pc, qf, oldTask, d_pc, pushLog,
                   startLog, stopLen>>

\* lines 416-419, with m_mutex held
WorkerRelease ==
    /\ w_pc = "release"
    /\ m_mutex = "free"
    /\ heap' = [heap EXCEPT ![Head(m_resQueue)].occupied = FALSE]
    /\ m_resQueue' = Tail(m_resQueue)
    /\ m_ready4Dump' = TRUE
    /\ w_pc' = "notify"
    /\ marker' = ""
    /\ backend' = NoIO
    /\ UNCHANGED <<cfgVars, cmpVars, m_memMng1st, m_memMng2nd, m_resPool, m_stopScheduler,
                   m_mutex, m_cond, prodVars, s_pc, qf, oldTask, inDoDump, d_pc,
                   logVars>>

\* line 421, by the worker the scheduler launched last
WorkerNotify ==
    /\ w_pc = "notify"
    /\ NotifyAll
    /\ w_pc' = "none"
    /\ marker' = ""
    /\ backend' = NoIO
    /\ UNCHANGED <<cfgVars, cmpVars, poolVars, m_resQueue, m_ready4Dump, m_stopScheduler,
                   m_mutex, call, nCalls, qf, oldTask, inDoDump,
                   d_pc, logVars>>

\* line 421, by the worker before it
OldWorkerNotify ==
    /\ oldTask
    /\ NotifyAll
    /\ oldTask' = FALSE
    /\ marker' = ""
    /\ backend' = NoIO
    /\ UNCHANGED <<cfgVars, cmpVars, poolVars, m_resQueue, m_ready4Dump, m_stopScheduler,
                   m_mutex, call, nCalls, w_pc, qf, inDoDump, d_pc,
                   logVars>>

\* ------------------------------------------------ ~MediaDebugFastDumpImp
\* the object is destroyed while no producer is between the entry of AddTask and
\* its return, other than inside the wait of line 300
MayDestroy == \A p \in Producers : pc[p] \in {"idle", "wait", "woken"}

\* lines 220-223
DtorStop ==
    /\ d_pc = "alive"
    /\ MayDestroy
    /\ m_mutex = "free"
    /\ m_stopScheduler' = TRUE
    /\ stopLen' = Len(pushLog)
    /\ d_pc' = "notify"
    /\ marker' = ""
    /\ backend' = NoIO
    /\ UNCHANGED <<cfgVars, cmpVars, poolVars, m_resQueue, m_ready4Dump, m_mutex, m_cond,
                   prodVars, schedVars, pushLog, startLog, doneLog>>

\* line 227
DtorNotify ==
    /\ d_pc = "notify"
    /\ NotifyOne(SchedulerId)
    /\ d_pc' = "join"
    /\ marker' = ""
    /\ backend' = NoIO
    /\ UNCHANGED <<cfgVars, cmpVars, poolVars, m_resQueue, m_ready4Dump, m_stopScheduler,
                   m_mutex, call, nCalls, w_pc, qf, oldTask,
                   inDoDump, logVars>>

\* line 228: join returns once ScheduleTasks has returned
DtorJoin ==
    /\ d_pc = "join"
    /\ s_pc = "exit"
    /\ d_pc' = "done"
    /\ marker' = ""
    /\ backend' = NoIO
    /\ UNCHANGED <<cfgVars, cmpVars, poolVars, m_resQueue, m_ready4Dump, m_stopScheduler,
                   m_mutex, m_cond, prodVars, schedVars, logVars>>

\* ------------------------------------------------------- specification
Producer(p) ==
    \/ \E gmmOk \in BOOLEAN, resSize \in ResSizes, offset \in Offsets,
          dumpSize \in DumpSizes, shape \in Shapes, infoOk \in BOOLEAN :
          AddTaskCall(p, gmmOk, resSize, offset, dumpSize, shape, infoOk)
    \/ \E allocOk \in BOOLEAN, copyOk \in BOOLEAN : AddTaskAcquire(p, allocOk, copyOk)
    \/ \E copyOk \in BOOLEAN : AddTaskWoken(p, copyOk)
    \/ AddTaskNotify(p)

Scheduler ==
    \/ SchedLoop
    \/ SchedAssign
    \/ SchedDrainLock
    \/ SchedDrainDump
    \/ \E lockOk \in BOOLEAN : SchedDrainPop(lockOk)
    \/ SchedExit

Worker ==
    \/ WorkerStart
    \/ \E lockOk \in BOOLEAN : WorkerDumped(lockOk)
    \/ WorkerRelease
    \/ WorkerNotify
    \/ OldWorkerNotify

Destructor ==
    \/ DtorStop
    \/ DtorNotify
    \/ DtorJoin

Next ==
    \/ \E p \in Producers : Producer(p)
    \/ Scheduler
    \/ Worker
    \/ Destructor
    \/ SpuriousWake

Spec == Init /\ [][Next]_vars

\* One AddTask call by one producer, for every configuration of the sampling
\* gate, every clock reading and every size_t value of the resource size, the
\* offset and the dumpSize; the scheduler has not run yet.
InitData ==
    \E sampling \in SizeT \X SizeT, clock \in SizeT :
        Constructed(TRUE, sampling, <<0, 0>>, clock) /\ NoCmp

NextData ==
    \/ \E gmmOk \in BOOLEAN, resSize \in SizeT, offset \in SizeT,
          dumpSize \in SizeT, infoOk \in BOOLEAN :
          nCalls = 0 /\ AddTaskCall(1, gmmOk, resSize, offset, dumpSize, 1, infoOk)
    \/ \E allocOk \in BOOLEAN, copyOk \in BOOLEAN : AddTaskAcquire(1, allocOk, copyOk)
    \/ AddTaskNotify(1)

DataSpec == InitData /\ [][NextData]_vars

\* The pipeline while it is not destroyed, with every thread that can take a
\* step taking it eventually: a producer inside AddTask, the scheduler thread
\* and the std::async workers.  Nothing obliges a caller to call AddTask, and no
\* wait returns without a notification.
NextLive ==
    \/ \E p \in Producers : Producer(p)
    \/ SchedLoop
    \/ SchedAssign
    \/ Worker

Fairness ==
    /\ \A p \in Producers :
          /\ WF_vars(\E allocOk \in BOOLEAN, copyOk \in BOOLEAN :
                        AddTaskAcquire(p, allocOk, copyOk))
          /\ WF_vars(\E copyOk \in BOOLEAN : AddTaskWoken(p, copyOk))
          /\ WF_vars(AddTaskNotify(p))
    /\ WF_vars(SchedLoop)
    /\ WF_vars(SchedAssign)
    /\ WF_vars(WorkerStart)
    /\ WF_vars(\E lockOk \in BOOLEAN : WorkerDumped(lockOk))
    /\ WF_vars(WorkerRelease)
    /\ WF_vars(WorkerNotify)
    /\ WF_vars(OldWorkerNotify)

LiveSpec == Init /\ [][NextLive]_vars /\ Fairness

\* ResInfoCmp applied to every pair of three shape keys, for every choice of the
\* keys; the pipeline itself takes no step.
FieldValues == {0, 1}
ResInfos == [Type : FieldValues, dwWidth : FieldValues,
             dwHeight : FieldValues, Format : FieldValues]

\* ResInfoCmp::operator(), lines 342-348
ResInfoCmp(a, b) ==
    IF a.Type < b.Type THEN TRUE
    ELSE IF a.dwWidth < b.dwWidth THEN TRUE
    ELSE IF a.dwHeight < b.dwHeight THEN TRUE
    ELSE IF a.Format < b.Format THEN TRUE
    ELSE FALSE

InitCmp ==
    /\ Constructed(TRUE, <<0, 0>>, <<0, 0>>, 0)
    /\ keys \in ResInfos \X ResInfos \X ResInfos
    /\ less = <<>>

Compare ==
    /\ less = <<>>
    /\ less' = [i \in 1 .. 3 |-> [j \in 1 .. 3 |-> ResInfoCmp(keys[i], keys[j])]]
    /\ UNCHANGED <<cfgVars, poolVars, m_resQueue, m_ready4Dump, m_stopScheduler,
                   m_mutex, m_cond, prodVars, marker, schedVars, d_pc, logVars,
                   backend, keys>>

NextCmp == Compare

CmpSpec == InitCmp /\ [][NextCmp]_vars

\* The pipeline with its destructor, with every thread that can take a step
\* taking it eventually: the threads of LiveSpec, the scheduler in its drain, and
\* the destroying thread once it has entered the destructor.  Nothing obliges the
\* owner to destroy the pipeline, and no wait returns without a notification.
NextStop ==
    \/ \E p \in Producers : Producer(p)
    \/ Scheduler
    \/ Worker
    \/ Destructor

FairnessStop ==
    /\ Fairness
    /\ WF_vars(SchedDrainLock)
    /\ WF_vars(SchedDrainDump)
    /\ WF_vars(\E lockOk \in BOOLEAN : SchedDrainPop(lockOk))
    /\ WF_vars(SchedExit)
    /\ WF_vars(DtorNotify)
    /\ WF_vars(DtorJoin)

StopSpec == Init /\ [][NextStop]_vars /\ FairnessStop

\* ---------------------------------------------------------------- claims
IsPrefix(a, b) == Len(a) <= Len(b) /\ SubSeq(b, 1, Len(a)) = a

\* C1: single-flight.  In every reachable state at most one DoDump is being
\* executed, by the async worker or by the shutdown drain.
C1_SingleFlight == inDoDump <= 1

\* the drain is inside DoDump after the async worker has dumped a job
C1_Witness == s_pc = "drainDump" /\ inDoDump = 1 /\ doneLog # <<>>

\* C2: dumps happen in FIFO submission order.  The jobs DoDump has started on
\* and the jobs it has returned for are both an initial part of the jobs in push
\* order, and DoDump starts on a job only when it has returned for every job
\* before it: no job is skipped or reordered, on the worker path and the drain.
C2_FifoOrder ==
    /\ IsPrefix(startLog, pushLog)
    /\ IsPrefix(doneLog, startLog)
    /\ Len(startLog) <= Len(doneLog) + 1

\* two jobs were dumped, the second by the drain, and the destructor returned
C2_Witness == d_pc = "done" /\ doneLog = <<1, 2>> /\ stopLen = 2

\* C3: shutdown drains.  When the destructor returns, DoDump has run for every
\* job pushed before m_stopScheduler was set, m_resQueue is empty and no pooled
\* Res is occupied.
C3_ShutdownDrains ==
    d_pc = "done" =>
        /\ IsPrefix(SubSeq(pushLog, 1, stopLen), doneLog)
        /\ m_resQueue = <<>>
        /\ \A r \in 1 .. Len(heap) : ~heap[r].occupied

\* the Res of a bucket that are not occupied
FreeIn(h, bucket) == {bucket[i] : i \in {j \in 1 .. Len(bucket) : ~h[bucket[j]].occupied}}

\* producer p leaves lines 280-317 with this step, having found no free Res in
\* its bucket and having got no new one from m_allocate
NoBufferStep(p) ==
    /\ pc[p] = "lock"
    /\ pc'[p] # "lock"
    /\ FreeIn(heap, m_resPool[call[p].shape]) = {}
    /\ Len(heap') = Len(heap)

\* no tier has room for resSize more bytes
NoRoom(resSize) ==
    /\ SizeAdd(m_memMng1st.usage, resSize) > m_memMng1st.cap
    /\ m_memMng2nd.cap > 0 => SizeAdd(m_memMng2nd.usage, resSize) > m_memMng2nd.cap

\* C4: with allowDataLoss=false a call that finds no free Res in its bucket and
\* cannot allocate is never dropped with the "discarded" marker, whatever the
\* pool holds: it blocks in the wait, and when it leaves the wait it goes on to
\* the copy.
C4_BlocksNeverDiscards ==
    [][\A p \in Producers :
          /\ (~m_allowDataLoss /\ NoBufferStep(p) /\ NoRoom(call[p].resSize))
                => (pc'[p] = "wait" /\ marker' # "discarded")
          /\ (~m_allowDataLoss /\ pc[p] = "woken" /\ pc'[p] \notin {"woken", "wait"})
                => (pc'[p] \in {"notify", "idle"} /\ marker' # "discarded")]_vars

\* C5: with allowDataLoss=true a call that finds no free Res in its bucket and
\* cannot allocate returns without blocking, passes exactly the tag "discarded"
\* to m_writeError, pushes no job and changes neither usage counter nor any
\* occupied flag.
C5_DiscardIsClean ==
    [][\A p \in Producers :
          (m_allowDataLoss /\ NoBufferStep(p))
             => /\ marker' = "discarded"
                /\ pc'[p] = "idle"
                /\ p \notin m_cond'
                /\ m_resQueue' = m_resQueue
                /\ m_memMng1st'.usage = m_memMng1st.usage
                /\ m_memMng2nd'.usage = m_memMng2nd.usage
                /\ heap' = heap]_vars

\* a call was discarded under allowDataLoss=true with tier 1 full and a Res of
\* the pool occupied
C5_Witness ==
    /\ m_allowDataLoss
    /\ marker = "discarded"
    /\ m_memMng1st.usage = m_memMng1st.cap
    /\ \E r \in 1 .. Len(heap) : heap[r].occupied

\* C6: reuse before allocation.  When the bucket of the call's shape holds a Res
\* that is not occupied, the call takes one of those: the allocator is not
\* called, so both usage counters, the pool and the number of Res are unchanged,
\* and the job it pushes is bound to a Res that was free in that bucket.
C6_ReuseBeforeAllocation ==
    [][\A p \in Producers :
          (/\ pc[p] = "lock"
           /\ pc'[p] # "lock"
           /\ FreeIn(heap, m_resPool[call[p].shape]) # {})
             => /\ m_memMng1st' = m_memMng1st
                /\ m_memMng2nd' = m_memMng2nd
                /\ m_resPool' = m_resPool
                /\ Len(heap') = Len(heap)
                /\ pc'[p] \in {"notify", "idle"}
                /\ marker' \in {"", "surface_copy_failed"}
                /\ pc'[p] = "notify" =>
                      m_resQueue'[Len(m_resQueue')]
                          \in FreeIn(heap, m_resPool[call[p].shape])]_vars

\* the one Res of the pool was dumped for job 1 and is bound to job 2
C6_Witness ==
    /\ Len(heap) = 1
    /\ doneLog = <<1>>
    /\ heap[1].occupied
    /\ heap[1].name = 2
    /\ m_memMng1st.usage = heap[1].size

\* C7: a call whose offset+dumpSize, as a mathematical sum, exceeds the size of
\* the resource reports "incorrect_size_offset", allocates nothing and pushes no
\* job: every call that went past the validation, and so every job pushed, has
\* offset+dumpSize <= resource size.
C7_SizeOffsetValidated ==
    \A p \in Producers :
        pc[p] \in {"lock", "wait", "woken", "notify"}
            => call[p].offset + call[p].dumpSize <= call[p].resSize

\* the sampling gate as specified: the sum of the two windows is their sum
SpecGate(t) ==
    IF m_samplingTime = 0 /\ m_samplingInterval = 0
    THEN TRUE
    ELSE (t % (m_samplingTime + m_samplingInterval)) <= m_samplingTime

\* C8: the sampling gate.  With both windows zero every call passes; otherwise
\* a call at elapsed time t passes iff t mod (activeWindow+idleWindow) <=
\* activeWindow.  A call that fails the gate is a silent no-op: no allocation,
\* no queue entry, no marker.
C8_SamplingGate ==
    [][nCalls' = nCalls + 1
          => IF SpecGate(now)
             THEN marker' # "" \/ \E p \in Producers : pc[p] = "idle" /\ pc'[p] = "lock"
             ELSE /\ marker' = ""
                  /\ UNCHANGED <<pc, call, poolVars, m_resQueue, m_cond>>]_vars

\* C9: budget bound.  In every reachable state the usage counter of each tier
\* is at most the tier's cap.
C9_BudgetBound ==
    /\ m_memMng1st.usage <= m_memMng1st.cap
    /\ m_memMng2nd.usage <= m_memMng2nd.cap

\* a second Res was allocated from a full tier 1 because usage+resSize wrapped
C9_Witness ==
    /\ Len(heap) = 2
    /\ m_memMng1st.cap = 1
    /\ m_memMng1st.usage = 0
    /\ m_memMng2nd.usage = 0

\* C10: no cancellation.  Every job pushed on m_resQueue is eventually dumped
\* and the occupied flag of its Res cleared.
C10_NoCancellation ==
    \A k \in 1 .. MaxCalls :
        (Len(pushLog) >= k)
            ~> (/\ Len(doneLog) >= k
                /\ \A r \in 1 .. Len(heap) : heap[r].name = k => ~heap[r].occupied)

\* the labels in a log
Labels(log) == {log[i] : i \in 1 .. Len(log)}

\* C11: snapshot integrity under reuse.  While a Res is occupied no step passes
\* it to SurfaceCopy as the destination or changes its size, offset or name; its
\* occupied flag is cleared only when DoDump has returned for its job; and the
\* Res a step binds to a new job is the destination that step copied into, so
\* it was not occupied before the step.
C11_SnapshotIntegrity ==
    [][/\ \A r \in 1 .. Len(heap) :
             heap[r].occupied
                => /\ backend'.copyDst # r
                   /\ heap'[r].size = heap[r].size
                   /\ heap'[r].offset = heap[r].offset
                   /\ heap'[r].name = heap[r].name
                   /\ ~heap'[r].occupied => heap[r].name \in Labels(doneLog')
       /\ Len(pushLog') > Len(pushLog)
             => m_resQueue'[Len(m_resQueue')] = backend'.copyDst]_vars

\* a call has just copied into Res 2 of a bucket while Res 1 of the same bucket
\* is occupied by job 1, which DoDump is working on
C11_Witness ==
    /\ \E s \in Shapes : m_resPool[s] = <<1, 2>>
    /\ heap[1].occupied
    /\ heap[1].name = 1
    /\ inDoDump = 1
    /\ backend.copyDst = 2
    /\ heap[2].name = 2

\* the sum of a sequence of numbers, as a mathematical sum
RECURSIVE SumSeq(_)
SumSeq(q) == IF q = <<>> THEN 0 ELSE Head(q) + SumSeq(Tail(q))

\* the bytes of the occupied Res, by the resSize each was allocated for
InFlight(h) ==
    SumSeq([r \in 1 .. Len(h) |-> IF h[r].occupied THEN h[r].charged ELSE 0])

\* every Res of the pool is in the bucket of this shape
OneBucket(shape) == \A s \in Shapes \ {shape} : m_resPool[s] = <<>>

\* C12: one-bucket success.  While every Res is in one shape bucket, a valid
\* call for that shape for which the bytes in flight plus its resSize are at
\* most the tier-1 cap, and whose pfnAllocateResource and SurfaceCopy calls
\* succeed, pushes its job: it is neither discarded nor made to wait.
C12_OneBucketSucceeds ==
    [][\A p \in Producers :
          (/\ pc[p] = "lock"
           /\ pc'[p] # "lock"
           /\ OneBucket(call[p].shape)
           /\ InFlight(heap) + call[p].resSize <= m_memMng1st.cap
           /\ ~backend'.allocFailed
           /\ marker' # "surface_copy_failed")
             => /\ pc'[p] = "notify"
                /\ marker' = ""
                /\ p \notin m_cond'
                /\ Len(pushLog') = Len(pushLog) + 1
                /\ heap'[m_resQueue'[Len(m_resQueue')]].occupied]_vars

\* the second call of a bucket was given a new Res from tier 1 while the first
\* Res of the bucket was in flight
C12_Witness ==
    /\ \E s \in Shapes : m_resPool[s] = <<1, 2>> /\ OneBucket(s)
    /\ heap[1].occupied
    /\ heap[2].occupied
    /\ backend.allocTier = 1
    /\ backend.copyDst = 2
    /\ m_memMng1st.usage = 2
    /\ pushLog = <<1, 2>>

\* C13: queue/occupied consistency.  In every state the occupied Res are
\* exactly the Res m_resQueue refers to, and no Res is in the queue twice; in
\* particular the destination of a failed copy is neither occupied nor queued.
C13_QueueOccupiedConsistent ==
    /\ {r \in 1 .. Len(heap) : heap[r].occupied} = Labels(m_resQueue)
    /\ Cardinality(Labels(m_resQueue)) = Len(m_resQueue)
    /\ marker = "surface_copy_failed"
          => /\ ~heap[backend.copyDst].occupied
             /\ backend.copyDst \notin Labels(m_resQueue)

\* the copy into a Res just allocated failed while another Res is queued
C13_Witness ==
    /\ marker = "surface_copy_failed"
    /\ backend.copyDst = 2
    /\ backend.allocTier # 0
    /\ m_resQueue = <<1>>
    /\ heap[1].occupied

\* the bytes charged for the Res of the pool that were allocated with memType,
\* as a mathematical sum
ChargedTo(h, memType) ==
    SumSeq([r \in 1 .. Len(h) |-> IF h[r].memType = memType THEN h[r].charged ELSE 0])

\* C14: budget accounting.  After every step the usage of each tier is the sum
\* of the sizes charged for the Res allocated from that tier and held in
\* m_resPool, and no step decreases the usage of a tier.
C14_BudgetAccounting ==
    [][/\ m_memMng1st'.usage = ChargedTo(heap', 1)
       /\ m_memMng2nd'.usage = ChargedTo(heap', 2)
       /\ m_memMng1st'.usage >= m_memMng1st.usage
       /\ m_memMng2nd'.usage >= m_memMng2nd.usage]_vars

\* the producers blocked in the wait of line 300 on the bucket of shape s
Blocked(s) == {p \in Producers : p \in m_cond /\ call[p].shape = s}

\* C15: release wakes blocked acquirers.  Whenever a bucket holds a Res that is
\* not occupied while a producer is blocked in the wait on that bucket, that
\* producer is eventually notified, that is, it leaves the wait set of m_cond
\* to evaluate its predicate again, whichever path of ScheduleTasks released
\* the Res.  (A notified producer that finds the Res free goes on to the copy:
\* AddTaskWoken.)
C15_ReleaseWakesWaiters ==
    \A s \in Shapes : \A p \in Producers :
        (p \in Blocked(s) /\ FreeIn(heap, m_resPool[s]) # {}) ~> (p \notin m_cond)

\* the lexicographic less-than on (Type, dwWidth, dwHeight, Format)
LexLess(a, b) ==
    \/ a.Type < b.Type
    \/ a.Type = b.Type /\ a.dwWidth < b.dwWidth
    \/ a.Type = b.Type /\ a.dwWidth = b.dwWidth /\ a.dwHeight < b.dwHeight
    \/ a.Type = b.Type /\ a.dwWidth = b.dwWidth /\ a.dwHeight = b.dwHeight
          /\ a.Format < b.Format

\* C16: shape-key ordering.  On every pair of keys ResInfoCmp returns what the
\* lexicographic less-than on (Type, dwWidth, dwHeight, Format) returns; it is
\* irreflexive, asymmetric and transitive; and two keys are equivalent under it
\* (neither is less than the other) iff their four fields are equal.
C16_ShapeKeyOrdering ==
    less # <<>> =>
        \A i \in 1 .. 3, j \in 1 .. 3 :
            /\ less[i][j] = LexLess(keys[i], keys[j])
            /\ ~less[i][i]
            /\ less[i][j] => ~less[j][i]
            /\ \A k \in 1 .. 3 : (less[i][j] /\ less[j][k]) => less[i][k]
            /\ (~less[i][j] /\ ~less[j][i]) <=> (keys[i] = keys[j])

\* C17: tier selection.  When a call has to allocate, pfnAllocateResource is
\* asked for tier 1 exactly when the test usage1+size <= cap1 passes, and for
\* tier 2 exactly when that test fails, cap2 > 0 and the test usage2+size <=
\* cap2 passes, the sums being those the code computes in size_t; tier 1 is
\* chosen whenever the sum usage1+size, as a number, is at most cap1.  The Res
\* allocated is of the tier asked for and only that tier is charged.  A tier 2
\* of cap 0 is never asked for, holds no Res and keeps usage 0.
C17_TierSelection ==
    [][/\ \A p \in Producers :
             (/\ pc[p] = "lock"
              /\ pc'[p] # "lock"
              /\ FreeIn(heap, m_resPool[call[p].shape]) = {})
                => LET size  == call[p].resSize
                       test1 == SizeAdd(m_memMng1st.usage, size) <= m_memMng1st.cap
                       test2 == SizeAdd(m_memMng2nd.usage, size) <= m_memMng2nd.cap
                   IN  /\ m_memMng1st.usage + size <= m_memMng1st.cap
                             => backend'.allocTier = 1
                       /\ backend'.allocTier = 1 <=> test1
                       /\ backend'.allocTier = 2
                             <=> (~test1 /\ m_memMng2nd.cap > 0 /\ test2)
                       /\ Len(heap') > Len(heap)
                             => /\ heap'[Len(heap')].memType = backend'.allocTier
                                /\ m_memMng1st'.usage =
                                      IF backend'.allocTier = 1
                                      THEN SizeAdd(m_memMng1st.usage, size)
                                      ELSE m_memMng1st.usage
                                /\ m_memMng2nd'.usage =
                                      IF backend'.allocTier = 2
                                      THEN SizeAdd(m_memMng2nd.usage, size)
                                      ELSE m_memMng2nd.usage
       /\ m_memMng2nd.cap = 0
             => /\ backend'.allocTier # 2
                /\ m_memMng2nd'.usage = 0
                /\ \A r \in 1 .. Len(heap') : heap'[r].memType # 2]_vars

\* with tier 1 full, the second Res was allocated from tier 2
C17_Witness ==
    /\ Len(heap) = 2
    /\ heap[1].memType = 1
    /\ heap[2].memType = 2
    /\ backend.allocTier = 2
    /\ m_memMng1st.usage = m_memMng1st.cap
    /\ m_memMng2nd.usage = 1

\* the tags AddTask passes to m_writeError
FailureTags ==
    {"get_surface_size_failed", "incorrect_size_offset", "get_resource_info_failed",
     "discarded", "surface_copy_failed"}

\* C18: submission failures are local.  A step of AddTask that reports a tag
\* reports one tag and ends its call; it pushes no job, leaves m_resQueue, the
\* wait set, m_ready4Dump and the occupied flag, size, offset and name of every
\* Res unchanged, and a Res it has just allocated is in the pool and not
\* occupied.  After "surface_copy_failed" the destination is in the bucket of
\* the call's shape, not occupied, and find_if on that bucket finds a free Res.
\* Every call that ends without a push, other than at the sampling gate, has
\* reported a tag.
C18_FailuresAreLocal ==
    [][/\ marker' \in FailureTags
             => /\ m_resQueue' = m_resQueue
                /\ pushLog' = pushLog
                /\ m_cond' = m_cond
                /\ m_ready4Dump' = m_ready4Dump
                /\ \A r \in 1 .. Len(heap) :
                      /\ heap'[r].occupied = heap[r].occupied
                      /\ heap'[r].size = heap[r].size
                      /\ heap'[r].offset = heap[r].offset
                      /\ heap'[r].name = heap[r].name
                /\ \A r \in (Len(heap) + 1) .. Len(heap') :
                      /\ ~heap'[r].occupied
                      /\ \E s \in Shapes : r \in Labels(m_resPool'[s])
                /\ \E p \in Producers :
                      /\ pc[p] \in {"idle", "lock", "woken"}
                      /\ pc'[p] = "idle"
                      /\ \A q \in Producers \ {p} : pc'[q] = pc[q]
                      /\ marker' = "surface_copy_failed"
                            => /\ backend'.copyDst \in Labels(m_resPool'[call[p].shape])
                               /\ ~heap'[backend'.copyDst].occupied
                               /\ FindFree(heap', m_resPool'[call[p].shape]) # 0
       /\ \A p \in Producers :
             (pc[p] \in {"lock", "woken"} /\ pc'[p] = "idle")
                => marker' \in {"discarded", "surface_copy_failed"}
       /\ (nCalls' = nCalls + 1 /\ pc' = pc /\ m_2CacheTask(now))
             => marker' \in FailureTags]_vars

\* the copy of the second call into Res 1, which job 1 had used and released,
\* failed: Res 1 still holds what job 1 left in it
C18_Witness ==
    /\ marker = "surface_copy_failed"
    /\ backend.copyDst = 1
    /\ backend.allocTier = 0
    /\ Len(heap) = 1
    /\ ~heap[1].occupied
    /\ heap[1].name = 1
    /\ doneLog = <<1>>

\* C19: a lock failure during a dump is non-fatal.  The step in which
\* pfnLockResource fails reports "lock_failed", does not call m_write, and
\* DoDump returns; on the worker path the job is still at the front, occupied,
\* with m_ready4Dump false, and the worker goes on to its release, which pops
\* the job, clears occupied and sets m_ready4Dump, and then to notify_all,
\* which empties the wait set, so that the scheduler is back at its predicate;
\* in the drain the job is popped and its Res released in the same step.
C19_LockFailureNonFatal ==
    [][/\ marker' = "lock_failed"
             => /\ ~backend'.written
                /\ inDoDump' = inDoDump - 1
                /\ Len(doneLog') = Len(doneLog) + 1
                /\ \/ /\ w_pc = "dump"
                      /\ w_pc' = "release"
                      /\ m_resQueue' = m_resQueue
                      /\ Head(m_resQueue') = qf
                      /\ heap'[qf].occupied
                      /\ ~m_ready4Dump'
                   \/ /\ s_pc = "drainDump"
                      /\ s_pc' = "drain"
                      /\ m_resQueue' = Tail(m_resQueue)
                      /\ ~heap'[Head(m_resQueue)].occupied
                      /\ m_ready4Dump'
       /\ (w_pc = "release" /\ w_pc' # "release")
             => /\ w_pc' = "notify"
                /\ m_resQueue' = Tail(m_resQueue)
                /\ ~heap'[qf].occupied
                /\ m_ready4Dump'
       /\ (w_pc = "notify" /\ w_pc' # "notify")
             => \/ w_pc' = "none" /\ m_cond' = {} /\ s_pc' # "wait"
                \/ w_pc' = "start" /\ oldTask'
       /\ (oldTask /\ ~oldTask') => (m_cond' = {} /\ s_pc' # "wait")]_vars

\* the lock has just failed for the job of the worker while another job is
\* queued behind it and the scheduler is blocked in its wait
C19_Witness ==
    /\ marker = "lock_failed"
    /\ w_pc = "release"
    /\ Len(m_resQueue) = 2
    /\ SchedulerId \in m_cond

\* C20: shutdown terminates.  Once the destructor has set m_stopScheduler and
\* issued its notify_one, the scheduler leaves its wait, drains and returns, and
\* the join of the destructor returns.
C20_ShutdownTerminates == (d_pc = "join") ~> (d_pc = "done")

====
